---------------------------- MODULE Spec2Model ----------------------------
(***************************************************************************)
(* HRI alkaline electrolyser (src/Electrolyzer.py) and the compressor /    *)
(* hydrogen tank model (src/Hydrogen_Storage.py) as state machines.        *)
(*                                                                         *)
(* One call of WED(V,I,P,T,state) is executed statement group by statement *)
(* group: the wrapper, then HRI.__init__ calling fEth, fVact, fR, the cell *)
(* voltage sum and fNH2_out, then the return.  Inputs are either Python    *)
(* scalars (kind = "scalar") or numpy column arrays as produced by         *)
(* DataFrame.values (kind = "ndarray", shape (len,1)), held as sequences.  *)
(*                                                                         *)
(* Numbers.  Quantities the code compares with a domain boundary are kept  *)
(* as fixed-point integers (P and pw in microbar, theta in 1e-6, T in K,   *)
(* I in A).  A floating-point value whose magnitude decides nothing is     *)
(* kept as its IEEE class:                                                 *)
(*    "nan" "ninf" "neg" "zero" "pos" "pinf", and "fin" for a finite       *)
(*    value whose sign is not tracked (a sum of mixed signs, a logarithm). *)
(* The hydrogen flow NH2_out and the tank balance are exact rationals.     *)
(* numpy never raises on an invalid floating-point operation (it warns and *)
(* yields nan or inf); a pure Python float division by zero raises         *)
(* ZeroDivisionError; incompatible array shapes raise ValueError.          *)
(***************************************************************************)
EXTENDS Integers, Sequences, FiniteSets, TLC

VARIABLES
    kind,      \* "scalar" | "ndarray": representation of the arguments
    V, I, P, T,\* the arguments of WED, one entry per sample
    state,     \* the state argument of WED
    pc,        \* position inside the call
    attrs,     \* names of the attributes set on the HRI instance
    Eth, Vact_a, Vact_c, r, Vcell, Vele,  \* locals of HRI.__init__
    NH2_out,   \* self.NH2_out
    output,    \* value returned by WED
    err,       \* exception that ended the call, "none" otherwise
    prev,      \* record of the previous call (two consecutive calls)
    NH2_ele, NH2_HV, P_H2_ele, T_H2_ele,  \* arguments of H2System
    tpc,       \* position inside Hydrogen_Storage_System
    T_H2_comp, \* compressor exit temperature (centi-kelvin), 0 before fCompressor
    Ptank,     \* class of the local Ptank of fH2Tank
    H2,        \* self.H2
    toutput,   \* value returned by Hydrogen_Storage_System
    terr       \* exception that ended the storage call

evars == <<kind, V, I, P, T, state, pc, attrs, Eth, Vact_a, Vact_c, r,
           Vcell, Vele, NH2_out, output, err>>
tvars == <<NH2_ele, NH2_HV, P_H2_ele, T_H2_ele, tpc, T_H2_comp, Ptank, H2,
           toutput, terr>>
vars == <<evars, prev, tvars>>

---------------------------------------------------------------------------
(* Bounds of the model *)

\* longest input array
MaxLen == 3

(* Program constants (HRI.__init__) *)
ncell == 24
n == 2
F == 96485
wt == 30
La == 45
\* R = 8.315 J/K/mol, in 1e-3
R_e3 == 8315
\* Sa = Sc = Sm = 0.03 m**2, in 1e-4
Sa_e4 == 300
\* dam = dcm = 1.25 mm, in 1e-2
dam_e2 == 125
\* I_loss of fNH2_out
I_loss == 0
\* 984.5679*np.exp(wt/115.96277) of fm, in 1e-5
ExpWtTerm_e5 == 127526156
\* fixed-point scale of theta, e and 1
One_e6 == 1000000

(* Input values *)
Volts == {48, 56}
\* 0 A, two operating currents, and a current whose bubble coverage exceeds 1
Currents == {0, 10, 20, 9000}
Temps == {298, 353}
\* microbar: pw(298 K), pw(353 K) and 1 bar
Pressures == {18484, 299246, 1000000}
States == {"on", "off", "standby"}

---------------------------------------------------------------------------
(* Floating-point classes *)

Sgn(x) == IF x < 0 THEN "neg" ELSE IF x = 0 THEN "zero" ELSE "pos"

Finite == {"neg", "zero", "pos", "fin"}

FNeg(a) ==
    CASE a = "neg" -> "pos"
      [] a = "pos" -> "neg"
      [] a = "ninf" -> "pinf"
      [] a = "pinf" -> "ninf"
      [] OTHER -> a

\* IEEE product.  A finite value of untracked sign times an infinity is not
\* determined by the classes and has no arm.
FMul(a, b) ==
    CASE a = "nan" \/ b = "nan" -> "nan"
      [] a = "zero" /\ b \in {"pinf", "ninf"} -> "nan"
      [] b = "zero" /\ a \in {"pinf", "ninf"} -> "nan"
      [] a = "zero" \/ b = "zero" -> "zero"
      [] a = "fin" /\ b \in Finite -> "fin"
      [] b = "fin" /\ a \in Finite -> "fin"
      [] a \in {"pos", "pinf"} /\ b \in {"pos", "pinf"} ->
            IF a = "pinf" \/ b = "pinf" THEN "pinf" ELSE "pos"
      [] a \in {"neg", "ninf"} /\ b \in {"neg", "ninf"} ->
            IF a = "ninf" \/ b = "ninf" THEN "pinf" ELSE "pos"
      [] a \in {"pos", "pinf"} /\ b \in {"neg", "ninf"} ->
            IF a = "pinf" \/ b = "ninf" THEN "ninf" ELSE "neg"
      [] a \in {"neg", "ninf"} /\ b \in {"pos", "pinf"} ->
            IF a = "ninf" \/ b = "pinf" THEN "ninf" ELSE "neg"

\* numpy float64 quotient a / b (a warning, never an exception).  The divisor
\* is always a value of known sign.
FDiv(a, b) ==
    CASE a = "nan" \/ b = "nan" -> "nan"
      [] b = "zero" /\ a = "zero" -> "nan"
      [] b = "zero" /\ a \in {"pos", "pinf"} -> "pinf"
      [] b = "zero" /\ a \in {"neg", "ninf"} -> "ninf"
      [] b \in {"pinf", "ninf"} /\ a \in {"pinf", "ninf"} -> "nan"
      [] b \in {"pinf", "ninf"} /\ a \in Finite -> "zero"
      [] b = "pos" -> a
      [] b = "neg" -> FNeg(a)

FAdd(a, b) ==
    CASE a = "nan" \/ b = "nan" -> "nan"
      [] a = "pinf" /\ b = "ninf" -> "nan"
      [] a = "ninf" /\ b = "pinf" -> "nan"
      [] a = "pinf" \/ b = "pinf" -> "pinf"
      [] a = "ninf" \/ b = "ninf" -> "ninf"
      [] a = "zero" -> b
      [] b = "zero" -> a
      [] a = b /\ a \in {"pos", "neg"} -> a
      [] OTHER -> "fin"

\* np.log10 / np.log of a value of known sign: -inf at 0, nan below 0
NpLog10(a) ==
    CASE a = "nan" -> "nan"
      [] a \in {"neg", "ninf"} -> "nan"
      [] a = "zero" -> "ninf"
      [] a = "pos" -> "fin"
      [] a = "pinf" -> "pinf"

\* numpy float64 base ** e for a positive fractional exponent e: nan for a
\* negative base
NpPowFrac(a) ==
    CASE a = "nan" -> "nan"
      [] a \in {"neg", "ninf"} -> "nan"
      [] OTHER -> a

---------------------------------------------------------------------------
(* Exact rationals: [k |-> "num", n |-> numerator, d |-> denominator > 0],  *)
(* or k = "nan" / "pinf" / "ninf" for a float that is not a number.         *)

RECURSIVE Gcd(_, _)
Gcd(a, b) == IF b = 0 THEN a ELSE Gcd(b, a % b)

Abs(x) == IF x < 0 THEN -x ELSE x

Rat(a, b) ==
    LET g == Gcd(Abs(a), Abs(b))
        s == IF b < 0 THEN -1 ELSE 1
    IN [k |-> "num", n |-> (s * a) \div g, d |-> (s * b) \div g]

RNaN == [k |-> "nan", n |-> 0, d |-> 1]
RInf(s) == [k |-> IF s < 0 THEN "ninf" ELSE "pinf", n |-> 0, d |-> 1]
RInt(x) == [k |-> "num", n |-> x, d |-> 1]

\* numpy quotient of two integers-as-floats
RDivInt(a, b) ==
    IF b # 0 THEN Rat(a, b)
    ELSE IF a = 0 THEN RNaN ELSE RInf(a)

RMul(x, y) ==
    CASE x.k = "nan" \/ y.k = "nan" -> RNaN
      [] x.k = "num" /\ y.k = "num" -> Rat(x.n * y.n, x.d * y.d)
      [] x.k = "num" /\ x.n = 0 -> RNaN
      [] y.k = "num" /\ y.n = 0 -> RNaN
      [] OTHER ->
            LET sx == IF x.k = "ninf" \/ (x.k = "num" /\ x.n < 0) THEN -1 ELSE 1
                sy == IF y.k = "ninf" \/ (y.k = "num" /\ y.n < 0) THEN -1 ELSE 1
            IN RInf(sx * sy)

\* x / c for a non-zero program constant c
RDivConst(x, c) ==
    CASE x.k = "num" -> Rat(x.n, x.d * c)
      [] x.k = "nan" -> RNaN
      [] OTHER -> IF c < 0 THEN RInf(IF x.k = "pinf" THEN -1 ELSE 1) ELSE x

RLess(x, y) == x.n * y.d < y.n * x.d

---------------------------------------------------------------------------
(* Input-dependent parameters *)

\* fm: molarity of KOH at wt = 30 %, in 1e-3 mol
fm(Tk) ==
    (((ExpWtTerm_e5 + 18312210 - 56845 * Tk) \div 100) * wt * 2) \div 11221

\* (I/S)**0.3 for S = 0.03 m**2, in 1e-6; numpy gives nan for I/S < 0
Pow03(Ik, S_e4) ==
    CASE Ik = 0 -> 0
      [] Ik = 10 -> 5712992
      [] Ik = 20 -> 7033518
      [] Ik = 9000 -> 43967966

\* ftheta: theta = 0.023*(I/S)**0.3, in 1e-6
ftheta(Ik, S_e4) == (23 * Pow03(Ik, S_e4)) \div 1000

\* pw of fEth: electrolyte partial pressure, in microbar
pw(Tk) ==
    CASE Tk = 298 -> 18484
      [] Tk = 353 -> 299246

\* ppw of fEth: partial pressure of pure water vapour, in microbar
ppw(Tk) ==
    CASE Tk = 298 -> 30897
      [] Tk = 353 -> 460955

---------------------------------------------------------------------------
(* The voltage sub-models, for one sample *)

\* Erev0 = 1.50342 - 9.956e-4*T + 2.5e-7*T**2, in 1e-7 V
Erev0(Tk) == 15034200 - 9956 * Tk + (25 * Tk * Tk) \div 10

\* Eth = Erev0 - R*T*((P - pw)**(3/2)*ppw/pw)/n/F
fEth(Pk, Tk) ==
    LET pow == NpPowFrac(Sgn(Pk - pw(Tk)))
        ratio == FDiv(FMul(pow, Sgn(ppw(Tk))), Sgn(pw(Tk)))
        term == FDiv(FDiv(FMul(FMul(Sgn(R_e3), Sgn(Tk)), ratio), Sgn(n)), Sgn(F))
    IN FAdd(Sgn(Erev0(Tk)), FNeg(term))

\* aa = 0.0675 + 0.00095*T and ac = 0.1175 + 0.00095*T, in 1e-5
aa(Tk) == 6750 + 95 * Tk
ac(Tk) == 11750 + 95 * Tk

\* Tafel slope b = 2.303*R*T/n/F/a
Tafel(Tk, a_e5) ==
    FDiv(FDiv(FDiv(FMul(Sgn(R_e3), Sgn(Tk)), Sgn(n)), Sgn(F)), Sgn(a_e5))

\* J0a = 30.4 - 0.206*T + 0.00035*T**2, in 1e-5
J0a(Tk) == 3040000 - 20600 * Tk + 35 * Tk * Tk
\* J0c = 13.72491 - 0.09055*T + 0.09055*T**2, in 1e-5
J0c(Tk) == 1372491 - 9055 * Tk + 9055 * Tk * Tk

\* One electrode of fVact: b*log10(J/J0) + b*log10(1 - theta)
VactElectrode(Tk, Ik, S_e4, a_e5, J0_e5) ==
    LET b == Tafel(Tk, a_e5)
        theta == ftheta(Ik, S_e4)
        Seff == FMul(Sgn(S_e4), Sgn(One_e6 - theta))
        J == FDiv(Sgn(Ik), Seff)
    IN FAdd(FMul(b, NpLog10(FDiv(J, Sgn(J0_e5)))),
            FMul(b, NpLog10(Sgn(One_e6 - theta))))

\* fVact returns (Vact_a, Vact_c); P is a parameter the body never reads
fVact(Pk, Tk, Ik) ==
    <<VactElectrode(Tk, Ik, Sa_e4, aa(Tk), J0a(Tk)),
      VactElectrode(Tk, Ik, Sa_e4, ac(Tk), J0c(Tk))>>

\* omega_Ni = 6e6 - 279650*T + 532*T**2 - 0.38057*T**3, in S/cm
omega_Ni(Tk) ==
    6000000 - 279650 * Tk + 532 * Tk * Tk
    - ((((38057 * Tk) \div 100) * Tk) \div 1000) * Tk

\* omega_KOH of fR with m = fm(T), in 1e-3 S/cm
omega_KOH(Tk) ==
    LET m == fm(Tk)
        m2 == (m * m) \div 1000
    IN - ((204 * m) \div 100)
       - ((28 * m2) \div 10000)
       + ((((5332 * m) \div 1000) * Tk) \div 1000)
       + (((2072 * m) \div 10) \div Tk)
       + ((((((1043 * m) \div 1000) * m) \div 1000) * m) \div 1000000)
       - ((3 * (((m2 * Tk) \div 1000) * Tk)) \div 10000)

\* e = 2/3*theta, in 1e-6
eVoid(Ik) == (2 * ftheta(Ik, Sa_e4)) \div 3

\* fR: r = Ra + Rc + Rele + Rmem
fR(Ik, Tk) ==
    LET Ra == FMul(FDiv(FDiv(Sgn(La), Sgn(omega_Ni(Tk))), Sgn(Sa_e4)), "pos")
        Rc == FMul(FDiv(FDiv(Sgn(La), Sgn(omega_Ni(Tk))), Sgn(Sa_e4)), "pos")
        Rele_free == FMul(FMul(FDiv("pos", Sgn(omega_KOH(Tk))),
                               FAdd(FDiv(Sgn(dam_e2), Sgn(Sa_e4)),
                                    FDiv(Sgn(dam_e2), Sgn(Sa_e4)))), "pos")
        Rele_e == FMul(Rele_free,
                       FAdd(FDiv("pos", NpPowFrac(Sgn(One_e6 - eVoid(Ik)))), "neg"))
        Rele == FAdd(Rele_free, Rele_e)
        Rmem == "pos"
    IN FAdd(FAdd(FAdd(Ra, Rc), Rele), Rmem)

\* nF = (I - I_loss)/I : ZeroDivisionError for a Python scalar I = 0
fNH2_raises(knd, Ik) == knd = "scalar" /\ Ik = 0

\* fNH2_out with the division by n forgotten
fNH2_out_noN(Ik) ==
    LET nF == RDivInt(Ik - I_loss, Ik)
    IN RDivConst(RMul(RInt(ncell * Ik), nF), F)

\* fNH2_out converting the terminal voltage instead of the current
fNH2_out_usesV(Ik) ==
    LET nF == RDivInt(Ik - I_loss, Ik)
    IN RDivConst(RDivConst(RMul(RInt(ncell * V[1]), nF), n), F)

\* fNH2_out: H2_out = ncell*I*nF/n/F
fNH2_out(Ik) ==
    LET nF == RDivInt(Ik - I_loss, Ik)
    IN RDivConst(RDivConst(RMul(RInt(ncell * Ik), nF), n), F)

---------------------------------------------------------------------------
(* numpy arrays of shape (len,1) as sequences *)

\* length of the broadcast of two column arrays, 0 when numpy raises ValueError
BLen(a, b) ==
    IF a = b THEN a ELSE IF a = 1 THEN b ELSE IF b = 1 THEN a ELSE 0

\* element k of an array broadcast to a longer one
Elem(s, k) == IF Len(s) = 1 THEN s[1] ELSE s[k]

\* arrays of length 1..len whose odd and even entries are two chosen values
Arrays(S, len) ==
    {[k \in 1..m |-> IF k % 2 = 1 THEN a ELSE b] : m \in 1..len, a \in S, b \in S}

\* arrays of length 1..len holding one value
Uniform(S, len) == {[k \in 1..m |-> a] : m \in 1..len, a \in S}

Unset == <<>>
NoOutput == [kind |-> "none", v |-> <<>>]
NoPrev == [kind |-> "none", V |-> <<>>, I |-> <<>>, P |-> <<>>, T |-> <<>>,
           pc |-> "none", err |-> "none", output |-> NoOutput]

\* attributes assigned by HRI.__init__ before the sub-models run
InitAttrs == {"V", "I", "P", "T", "dam", "dcm", "Sa", "Sc", "Sm", "La", "Lc",
              "R", "n", "F", "wt", "ncell"}

---------------------------------------------------------------------------
(* Vectorised sub-models *)

fEth_vec(Pseq, Tseq) ==
    [k \in 1..BLen(Len(Pseq), Len(Tseq)) |-> fEth(Elem(Pseq, k), Elem(Tseq, k))]

fVact_vec(Pseq, Tseq, Iseq) ==
    [k \in 1..BLen(Len(Iseq), Len(Tseq)) |->
        fVact(Elem(Pseq, k), Elem(Tseq, k), Elem(Iseq, k))]

fR_vec(Iseq, Tseq) ==
    [k \in 1..BLen(Len(Iseq), Len(Tseq)) |-> fR(Elem(Iseq, k), Elem(Tseq, k))]

\* the cell voltage with the reversible voltage left out
Vcell_vec_noEth(EthS, VaS, VcS, rS, Iseq) ==
    [k \in 1..BLen(Len(EthS), Len(VcS)) |->
        FAdd(FAdd(Elem(VcS, k), Elem(VaS, k)),
             FMul(Elem(rS, k), Sgn(Elem(Iseq, k))))]

\* Vcell = Eth + Vact_c + Vact_a + r*I
Vcell_vec(EthS, VaS, VcS, rS, Iseq) ==
    [k \in 1..BLen(Len(EthS), Len(VcS)) |->
        FAdd(FAdd(FAdd(Elem(EthS, k), Elem(VcS, k)), Elem(VaS, k)),
             FMul(Elem(rS, k), Sgn(Elem(Iseq, k))))]

\* Vele = ncell*Vcell
Vele_vec(VcellS) == [k \in 1..Len(VcellS) |-> FMul(Sgn(ncell), VcellS[k])]

\* fNH2_out reading the first sample for every entry
fNH2_out_vec_first(Iseq) == [k \in 1..Len(Iseq) |-> fNH2_out(Iseq[1])]

fNH2_out_vec(Iseq) == [k \in 1..Len(Iseq) |-> fNH2_out(Iseq[k])]

---------------------------------------------------------------------------
(* One call of WED *)

Raise(e) ==
    /\ pc' = "raised"
    /\ err' = e
    /\ Eth' = Unset /\ Vact_a' = Unset /\ Vact_c' = Unset /\ r' = Unset
    /\ Vcell' = Unset /\ Vele' = Unset
    /\ UNCHANGED <<kind, V, I, P, T, state, attrs, NH2_out, output>>

Frame == UNCHANGED <<prev, tvars>>

\* WED constructing the cell model whatever the state
WED_ignoresState ==
    /\ Frame
    /\ pc = "WED"
    /\ attrs' = InitAttrs
    /\ pc' = "fEth"
    /\ UNCHANGED <<kind, V, I, P, T, state, Eth, Vact_a, Vact_c, r, Vcell,
                   Vele, NH2_out, output, err>>

\* WED, lines 230-235, and HRI.__init__, lines 57-70
WED ==
    /\ Frame
    /\ pc = "WED"
    /\ IF state = "on"
       THEN /\ attrs' = InitAttrs
            /\ pc' = "fEth"
            /\ UNCHANGED output
       ELSE /\ output' = [kind |-> "int", v |-> <<RInt(0)>>]
            /\ pc' = "done"
            /\ UNCHANGED attrs
    /\ UNCHANGED <<kind, V, I, P, T, state, Eth, Vact_a, Vact_c, r, Vcell,
                   Vele, NH2_out, err>>

\* line 72
HRI_fEth ==
    /\ Frame
    /\ pc = "fEth"
    /\ IF BLen(Len(P), Len(T)) = 0
       THEN Raise("ValueError")
       ELSE /\ Eth' = fEth_vec(P, T)
            /\ pc' = "fVact"
            /\ UNCHANGED <<kind, V, I, P, T, state, attrs, Vact_a, Vact_c, r,
                           Vcell, Vele, NH2_out, output, err>>

\* line 73
HRI_fVact ==
    /\ Frame
    /\ pc = "fVact"
    /\ IF BLen(Len(I), Len(T)) = 0
       THEN Raise("ValueError")
       ELSE /\ Vact_a' = [k \in 1..BLen(Len(I), Len(T)) |-> fVact_vec(P, T, I)[k][1]]
            /\ Vact_c' = [k \in 1..BLen(Len(I), Len(T)) |-> fVact_vec(P, T, I)[k][2]]
            /\ pc' = "fR"
            /\ UNCHANGED <<kind, V, I, P, T, state, attrs, Eth, r, Vcell, Vele,
                           NH2_out, output, err>>

\* line 74
HRI_fR ==
    /\ Frame
    /\ pc = "fR"
    /\ r' = fR_vec(I, T)
    /\ pc' = "Vcell"
    /\ UNCHANGED <<kind, V, I, P, T, state, attrs, Eth, Vact_a, Vact_c, Vcell,
                   Vele, NH2_out, output, err>>

\* lines 75-76
HRI_Vcell ==
    /\ Frame
    /\ pc = "Vcell"
    /\ IF BLen(Len(Eth), Len(Vact_c)) = 0
       THEN Raise("ValueError")
       ELSE /\ Vcell' = Vcell_vec(Eth, Vact_a, Vact_c, r, I)
            /\ Vele' = Vele_vec(Vcell')
            /\ pc' = "fNH2_out"
            /\ UNCHANGED <<kind, V, I, P, T, state, attrs, Eth, Vact_a, Vact_c,
                           r, NH2_out, output, err>>

\* line 77; the locals of __init__ end with it
HRI_fNH2_out ==
    /\ Frame
    /\ pc = "fNH2_out"
    /\ IF \E k \in 1..Len(I) : fNH2_raises(kind, I[k])
       THEN Raise("ZeroDivisionError")
       ELSE /\ NH2_out' = fNH2_out_vec(I)
            /\ attrs' = attrs \cup {"NH2_out"}
            /\ Eth' = Unset /\ Vact_a' = Unset /\ Vact_c' = Unset /\ r' = Unset
            /\ Vcell' = Unset /\ Vele' = Unset
            /\ pc' = "return"
            /\ UNCHANGED <<kind, V, I, P, T, state, output, err>>

\* lines 233 and 236
WED_return ==
    /\ Frame
    /\ pc = "return"
    /\ output' = [kind |-> kind, v |-> NH2_out]
    /\ pc' = "done"
    /\ UNCHANGED <<kind, V, I, P, T, state, attrs, Eth, Vact_a, Vact_c, r,
                   Vcell, Vele, NH2_out, err>>

CallInit ==
    /\ kind \in {"scalar", "ndarray"}
    /\ state \in States
    /\ IF kind = "scalar"
       THEN /\ V \in Uniform(Volts, 1) /\ I \in Uniform(Currents, 1)
            /\ P \in Uniform(Pressures, 1) /\ T \in Uniform(Temps, 1)
       ELSE /\ V \in Uniform(Volts, MaxLen) /\ I \in Arrays(Currents, MaxLen)
            /\ P \in Arrays(Pressures, MaxLen) /\ T \in Arrays(Temps, MaxLen)
    /\ pc = "WED"
    /\ attrs = {}
    /\ Eth = Unset /\ Vact_a = Unset /\ Vact_c = Unset /\ r = Unset
    /\ Vcell = Unset /\ Vele = Unset
    /\ NH2_out = Unset
    /\ output = NoOutput
    /\ err = "none"

TankIdle ==
    /\ NH2_ele = <<>> /\ NH2_HV = <<>> /\ P_H2_ele = <<>> /\ T_H2_ele = <<>>
    /\ tpc = "idle" /\ T_H2_comp = 0 /\ Ptank = Unset /\ H2 = Unset
    /\ toutput = Unset /\ terr = "none"

Init == CallInit /\ prev = NoPrev /\ TankIdle

Next ==
    \/ WED
    \/ HRI_fEth
    \/ HRI_fVact
    \/ HRI_fR
    \/ HRI_Vcell
    \/ HRI_fNH2_out
    \/ WED_return

Spec == Init /\ [][Next]_vars

---------------------------------------------------------------------------
(* Two consecutive calls of WED on single samples *)

Terminal == pc \in {"done", "raised"}

PairInit ==
    /\ CallInit
    /\ state = "on"
    /\ Len(V) = 1 /\ Len(I) = 1 /\ Len(P) = 1 /\ Len(T) = 1
    /\ prev = NoPrev
    /\ TankIdle

\* the caller keeps the outcome of the first call and calls WED again
NextCall ==
    /\ Terminal
    /\ prev = NoPrev
    /\ state = "on"
    /\ prev' = [kind |-> kind, V |-> V, I |-> I, P |-> P, T |-> T,
                pc |-> pc, err |-> err, output |-> output]
    /\ state' = "on"
    /\ kind' \in {"scalar", "ndarray"}
    /\ V' \in Uniform(Volts, 1) /\ I' \in Uniform(Currents, 1)
    /\ P' \in Uniform(Pressures, 1) /\ T' \in Uniform(Temps, 1)
    /\ pc' = "WED"
    /\ attrs' = {}
    /\ NH2_out' = Unset
    /\ output' = NoOutput
    /\ err' = "none"
    /\ UNCHANGED <<Eth, Vact_a, Vact_c, r, Vcell, Vele, tvars>>

PairNext == Next \/ NextCall

SpecPair == PairInit /\ [][PairNext]_vars

---------------------------------------------------------------------------
(* Hydrogen_Storage_System: compressor and tank *)

\* t = 1 s of fH2Tank
t_step == 1
\* T_H2_comp = 25 + 273.15 K, in 1e-2
T_H2_comp_e2 == 29815

\* mol/s
Flows == {0, 1, 2}
\* Pa
TankPressures == {101325}

\* Ptank of fH2Tank for n moles (Vtank/n is infinite at n = 0)
fPtank(nk) ==
    LET n2 == FMul(Sgn(nk), Sgn(nk))
        ideal == FMul(FMul(n2, "pos"),
                      FAdd("pos", FNeg(FMul("pos", Sgn(nk)))))
        volume == FAdd(FDiv("pos", Sgn(nk)),
                       FMul("pos", FAdd("pos", FNeg(FMul("neg", Sgn(nk))))))
        attraction == FMul(FMul("pos", FAdd("pos", FNeg(FMul("neg", Sgn(nk))))), n2)
    IN FAdd(FMul(ideal, volume), FNeg(attraction))

\* n = NH2_ele * t - NH2_HV * t
fH2Tank(ele, hv) ==
    [k \in 1..BLen(Len(ele), Len(hv)) |->
        Elem(ele, k) * t_step - Elem(hv, k) * t_step]

TankFrame == UNCHANGED <<evars, prev>>

TankRaise ==
    /\ tpc' = "raised"
    /\ terr' = "ValueError"
    /\ UNCHANGED <<NH2_ele, NH2_HV, P_H2_ele, T_H2_ele, T_H2_comp, Ptank, H2,
                   toutput>>

\* lines 99-100 and 21-27
HSS_call ==
    /\ TankFrame
    /\ tpc = "call"
    /\ tpc' = "fCompressor"
    /\ UNCHANGED <<NH2_ele, NH2_HV, P_H2_ele, T_H2_ele, T_H2_comp, Ptank, H2,
                   toutput, terr>>

\* line 29: m broadcasts P with T, Pcomp broadcasts NH2_ele with m
H2_fCompressor ==
    /\ TankFrame
    /\ tpc = "fCompressor"
    /\ IF BLen(Len(NH2_ele), BLen(Len(P_H2_ele), Len(T_H2_ele))) = 0
       THEN TankRaise
       ELSE /\ T_H2_comp' = T_H2_comp_e2
            /\ tpc' = "fH2Tank"
            /\ UNCHANGED <<NH2_ele, NH2_HV, P_H2_ele, T_H2_ele, Ptank, H2,
                           toutput, terr>>

\* line 30
H2_fH2Tank ==
    /\ TankFrame
    /\ tpc = "fH2Tank"
    /\ IF BLen(Len(NH2_ele), Len(NH2_HV)) = 0
       THEN TankRaise
       ELSE /\ H2' = fH2Tank(NH2_ele, NH2_HV)
            /\ Ptank' = [k \in 1..Len(H2') |-> fPtank(H2'[k])]
            /\ tpc' = "return"
            /\ UNCHANGED <<NH2_ele, NH2_HV, P_H2_ele, T_H2_ele, T_H2_comp,
                           toutput, terr>>

\* lines 101-102
HSS_return ==
    /\ TankFrame
    /\ tpc = "return"
    /\ toutput' = H2
    /\ tpc' = "done"
    /\ UNCHANGED <<NH2_ele, NH2_HV, P_H2_ele, T_H2_ele, T_H2_comp, Ptank, H2,
                   terr>>

TankInit ==
    /\ NH2_ele \in Arrays(Flows, MaxLen)
    /\ NH2_HV \in Arrays(Flows, MaxLen)
    /\ P_H2_ele \in Uniform(TankPressures, MaxLen)
    /\ T_H2_ele \in Uniform(Temps, MaxLen)
    /\ tpc = "call" /\ T_H2_comp = 0 /\ Ptank = Unset /\ H2 = Unset
    /\ toutput = Unset /\ terr = "none"
    /\ kind = "ndarray" /\ state = "off"
    /\ V = <<>> /\ I = <<>> /\ P = <<>> /\ T = <<>>
    /\ pc = "idle" /\ attrs = {}
    /\ Eth = Unset /\ Vact_a = Unset /\ Vact_c = Unset /\ r = Unset
    /\ Vcell = Unset /\ Vele = Unset /\ NH2_out = Unset
    /\ output = NoOutput /\ err = "none"
    /\ prev = NoPrev

TankNext ==
    \/ HSS_call
    \/ H2_fCompressor
    \/ H2_fH2Tank
    \/ HSS_return

SpecTank == TankInit /\ [][TankNext]_vars

---------------------------------------------------------------------------
(* Properties *)

Enabled == state = "on"
SameLengths == Len(V) = Len(I) /\ Len(I) = Len(P) /\ Len(P) = Len(T)
SingleSample == Len(V) = 1 /\ Len(I) = 1 /\ Len(P) = 1 /\ Len(T) = 1
IntZero == [kind |-> "int", v |-> <<RInt(0)>>]

\* domains of the three voltage sub-models, for one sample
EthDomain(Pk, Tk) == Pk > pw(Tk)
VactDomain(Ik, Tk) ==
    /\ J0a(Tk) > 0 /\ J0c(Tk) > 0
    /\ ftheta(Ik, Sa_e4) < One_e6
    /\ Ik > 0
OhmicDomain(Ik, Tk) ==
    /\ eVoid(Ik) < One_e6
    /\ omega_Ni(Tk) # 0 /\ omega_KOH(Tk) # 0
ValidPoint(Ik, Pk, Tk) ==
    EthDomain(Pk, Tk) /\ VactDomain(Ik, Tk) /\ OhmicDomain(Ik, Tk)

\* single-sample evaluation: NH2_out of HRI(V,I,P,T) for one operating point
evaluate(Vk, Ik, Pk, Tk) == fNH2_out(Ik)

\* C1: with the stack disabled WED returns exactly 0 for every input; no
\* sub-model is evaluated, no instance is built and no error is raised.
C1_DisabledReturnsZero ==
    ~Enabled =>
        /\ pc \in {"WED", "done"}
        /\ err = "none"
        /\ attrs = {}
        /\ Eth = Unset /\ Vact_a = Unset /\ Vact_c = Unset /\ r = Unset
        /\ Vcell = Unset /\ Vele = Unset /\ NH2_out = Unset
        /\ (pc = "done" => output = IntZero)

\* a disabled call on an input outside two sub-model domains has returned 0
C1_Witness ==
    /\ state = "off" /\ pc = "done" /\ kind = "scalar"
    /\ I = <<0>> /\ P[1] < pw(T[1])
    /\ output = IntZero

\* C2 (as claimed): once fEth has run on a sample with P <= pw(T), the call
\* has ended in a DomainError.
C2_DomainErrorAtOrBelowPw ==
    ( /\ Enabled
      /\ SingleSample
      /\ ~EthDomain(P[1], T[1])
      /\ pc \notin {"WED", "fEth"} )
    => (pc = "raised" /\ err = "DomainError")

\* C3: for every sample with a non-zero current, NH2_out = ncell*I/(n*F)
\* exactly, and a larger current gives a strictly larger NH2_out.
C3_FaradayExact ==
    (Enabled /\ pc \in {"return", "done"}) =>
        /\ \A k \in 1..Len(I) :
              I[k] # 0 => NH2_out[k] = Rat(ncell * I[k], n * F)
        /\ \A j, k \in 1..Len(I) :
              (I[j] # 0 /\ I[k] # 0 /\ I[j] < I[k])
                  => RLess(NH2_out[j], NH2_out[k])

\* a completed batch with two different operating currents
C3_Witness ==
    /\ Enabled /\ pc = "done" /\ kind = "ndarray"
    /\ Len(I) >= 2 /\ I[1] = 10 /\ I[2] = 20
    /\ output.v[1] = [k |-> "num", n |-> 24, d |-> 19297]
    /\ output.v[2] = [k |-> "num", n |-> 48, d |-> 19297]

C5_MismatchedLengthsRejected ==
    (Enabled /\ kind = "ndarray" /\ ~SameLengths) =>
        /\ pc \notin {"return", "done"}
        /\ output = NoOutput

\* C6: in a completed batch of valid operating points of equal lengths, entry
\* k of the result is the single-sample evaluation of operating point k, and
\* equal operating points have equal results.
C6_BatchElementwise ==
    ( /\ Enabled /\ kind = "ndarray" /\ pc = "done" /\ SameLengths
      /\ \A k \in 1..Len(I) : ValidPoint(I[k], P[k], T[k]) )
    => /\ Len(output.v) = Len(I)
       /\ \A k \in 1..Len(I) :
             output.v[k] = evaluate(V[k], I[k], P[k], T[k])
       /\ \A j, k \in 1..Len(I) :
             (I[j] = I[k] /\ P[j] = P[k] /\ T[j] = T[k])
                 => output.v[j] = output.v[k]

\* a completed batch of valid operating points that differ in I and in P
C6_Witness ==
    /\ Enabled /\ kind = "ndarray" /\ pc = "done" /\ SameLengths
    /\ Len(I) = MaxLen
    /\ \A k \in 1..Len(I) : ValidPoint(I[k], P[k], T[k])
    /\ I[1] = 20 /\ I[2] = 10 /\ P[1] # P[2]
    /\ output.v[1] # output.v[2]
    /\ output.v[1] = output.v[MaxLen]

RECURSIVE NetSum(_)
NetSum(k) ==
    IF k = 0 THEN 0 ELSE NetSum(k - 1) + (NH2_ele[k] - NH2_HV[k]) * t_step

\* C7 (as claimed): the moles reported after sample k are the running sum of
\* the net flows of samples 1..k.
C7_TankAccumulates ==
    (tpc = "done" /\ Len(NH2_ele) = Len(NH2_HV)) =>
        \A k \in 1..Len(NH2_ele) : toutput[k] = NetSum(k)

\* C8 (as claimed): with I = 0 the evaluation stops inside the activation
\* sub-model with a DomainError; the ohmic and Faraday steps are not reached.
C8_ZeroCurrentStopsAtActivation ==
    (Enabled /\ SingleSample /\ I[1] = 0) =>
        /\ pc \notin {"fR", "Vcell", "fNH2_out", "return", "done"}
        /\ (pc = "raised" => err = "DomainError")

\* C9 (as claimed): when a sample is outside the domain of a voltage
\* sub-model the call ends in an error and no NH2_out is produced.
C9_ViolationsSurfaced ==
    ( /\ Enabled /\ SameLengths
      /\ \E k \in 1..Len(I) : ~ValidPoint(I[k], P[k], T[k]) )
    => /\ NH2_out = Unset
       /\ pc \notin {"return", "done"}

\* C10: two completed enabled evaluations with the same current return the
\* same NH2_out whatever V, P and T are, and two calls that differ in V only
\* end the same way.
C10_UnusedInputsDoNotInterfere ==
    /\ (pc = "done" /\ prev.pc = "done" /\ prev.I = I)
           => output.v = prev.output.v
    /\ ( /\ Terminal /\ prev.pc # "none" /\ prev.kind = kind
         /\ prev.I = I /\ prev.P = P /\ prev.T = T )
           => (pc = prev.pc /\ err = prev.err /\ output = prev.output)

\* two completed evaluations with the same current and different V, P and T
C10_Witness ==
    /\ pc = "done" /\ prev.pc = "done"
    /\ prev.I = I /\ I = <<10>>
    /\ prev.V # V /\ prev.P # P /\ prev.T # T
    /\ output.v = prev.output.v

===========================================================================
